---- MODULE Spec2Model ----
(***************************************************************************)
(* A model of @reach/combobox (packages/combobox/src/index.js): the state  *)
(* chart, the data reducer, the machine driver that composes them, the     *)
(* keyboard controller, the option click handler, the controlled-value     *)
(* sync of the input and the deferred blur check.                          *)
(*                                                                         *)
(* Strings are sequences of character codes, so that trim() and the        *)
(* truthiness of a string are computed and not assumed.                    *)
(***************************************************************************)
EXTENDS Integers, Sequences, FiniteSets, TLC

\* ------------------------------------------------------------------------
\* Bounds of the model

\* the longest option list the application renders
MaxOptions == 2

\* the most deferred blur checks waiting for their animation frame
MaxPending == 1

\* the longest registry that render passes which do not empty it build up
MaxRegistry == 1

\* the most renders in a row whose controlled-value sync is followed up
MaxSyncRenders == 5

\* ------------------------------------------------------------------------
\* Values

\* JavaScript's null, for the fields that hold a string or null
NULL == <<-1>>

\* the lastActionType of the initial data (the field is absent from defaultData)
undefined == "undefined"

\* the texts a user types or a developer passes as the controlled value:
\* "", " " and "ap"
Texts == { <<>>, <<32>>, <<97, 112>> }

\* the value of the i-th distinct option: "A", the empty string, "C", ...
OptionValue(i) == IF i = 2 THEN <<>> ELSE <<64 + i>>

OptionValues == { OptionValue(i) : i \in 1..MaxOptions }

\* The option lists the application renders, up to renaming of the option
\* values: the options before the last have the distinct values "A", "",
\* ..., and the last option has either the next value or the value of an
\* earlier option.
OptionLists ==
    { list \in UNION { [1..n -> OptionValues] : n \in 0..MaxOptions } :
        /\ \A i \in 1..(Len(list) - 1) : list[i] = OptionValue(i)
        /\ Len(list) > 0 =>
             \E i \in 1..Len(list) : list[Len(list)] = OptionValue(i) }

\* String.prototype.trim: the white space and line terminator code units
IsWhitespace(c) ==
    c \in {9, 10, 11, 12, 13, 32, 160, 5760, 8232, 8233, 8239, 8287, 12288,
           65279} \cup (8192..8202)

RECURSIVE trimStart(_)
trimStart(s) ==
    IF s # <<>> /\ IsWhitespace(Head(s)) THEN trimStart(Tail(s)) ELSE s

RECURSIVE trimEnd(_)
trimEnd(s) ==
    IF s # <<>> /\ IsWhitespace(s[Len(s)])
    THEN trimEnd(SubSeq(s, 1, Len(s) - 1))
    ELSE s

trim(s) == trimEnd(trimStart(s))

\* Array.prototype.indexOf, 0-based, -1 when absent
indexOf(arr, v) ==
    IF \E i \in 1..Len(arr) : arr[i] = v
    THEN (CHOOSE i \in 1..Len(arr) :
             /\ arr[i] = v
             /\ \A j \in 1..(i - 1) : arr[j] # v) - 1
    ELSE -1

\* arr[i] for a 0-based index in range
At(arr, i) == arr[i + 1]

\* the truthiness of a string or null: null and "" are falsy
Truthy(s) == s # NULL /\ s # <<>>

\* a || b
Or(a, b) == IF Truthy(a) THEN a ELSE b

\* A 32-bit integer n in two's complement is the pair of 16-bit halves
\* Hi16(n), Lo16(n); Int32 puts the halves together again.
Hi16(n) == (n \div 65536) % 65536

Lo16(n) == n % 65536

Int32(hi, lo) == (IF hi >= 32768 THEN hi - 65536 ELSE hi) * 65536 + lo

\* hash << 5
ShiftLeft5(hash) ==
    Int32((Hi16(hash) * 32 + (Lo16(hash) * 32) \div 65536) % 65536,
          (Lo16(hash) * 32) % 65536)

\* one round of makeHash's loop: hash = (hash << 5) - hash + char, then
\* hash = hash & hash, which brings the sum back to 32 bits
HashStep(hash, char) ==
    LET shifted == ShiftLeft5(hash)
        lo == Lo16(shifted) - Lo16(hash) + char
        hi == Hi16(shifted) - Hi16(hash) + (lo \div 65536)
    IN  Int32(hi % 65536, lo % 65536)

RECURSIVE makeHashFrom(_, _)
makeHashFrom(hash, str) ==
    IF str = <<>> THEN hash
    ELSE makeHashFrom(HashStep(hash, Head(str)), Tail(str))

\* makeHash: the id of an option, from its value alone
makeHash(str) == makeHashFrom(0, str)

\* ------------------------------------------------------------------------
\* States and actions

IDLE == "IDLE"
SUGGESTING == "SUGGESTING"
NAVIGATING == "NAVIGATING"
INTERACTING == "INTERACTING"

CLEAR == "CLEAR"
CHANGE == "CHANGE"
NAVIGATE == "NAVIGATE"
SELECT_WITH_KEYBOARD == "SELECT_WITH_KEYBOARD"
SELECT_WITH_CLICK == "SELECT_WITH_CLICK"
ESCAPE == "ESCAPE"
BLUR == "BLUR"
INTERACT == "INTERACT"

States == {IDLE, SUGGESTING, NAVIGATING, INTERACTING}

ActionTypes ==
    {CLEAR, CHANGE, NAVIGATE, SELECT_WITH_KEYBOARD, SELECT_WITH_CLICK,
     ESCAPE, BLUR, INTERACT}

stateChart ==
    [initial |-> IDLE,
     states |->
       [IDLE |->
          [BLUR |-> IDLE, CLEAR |-> IDLE, CHANGE |-> SUGGESTING,
           NAVIGATE |-> NAVIGATING],
        SUGGESTING |->
          [CHANGE |-> SUGGESTING, NAVIGATE |-> NAVIGATING, CLEAR |-> IDLE,
           ESCAPE |-> IDLE, BLUR |-> IDLE, SELECT_WITH_CLICK |-> IDLE,
           INTERACT |-> INTERACTING],
        NAVIGATING |->
          [CHANGE |-> SUGGESTING, CLEAR |-> IDLE, BLUR |-> IDLE,
           ESCAPE |-> IDLE, NAVIGATE |-> NAVIGATING,
           SELECT_WITH_KEYBOARD |-> IDLE, SELECT_WITH_CLICK |-> IDLE,
           INTERACT |-> INTERACTING],
        INTERACTING |->
          [CHANGE |-> SUGGESTING, BLUR |-> IDLE, ESCAPE |-> IDLE,
           NAVIGATE |-> NAVIGATING]]]

\* an action as dispatched: its type and the payload's value (NULL when the
\* payload has none)
Action(type, value) == [type |-> type, value |-> value]

\* what an unknown action type makes of the reducer: it throws
UnknownAction == [value |-> NULL, navigationValue |-> NULL,
                  lastActionType |-> "Error: Unknown action"]

\* reducer with a slip: NAVIGATE writes its payload into the value too
reducer_navigateSetsValue(data, action) ==
    LET nextState == [data EXCEPT !.lastActionType = action.type] IN
    CASE action.type = CHANGE ->
           [nextState EXCEPT !.navigationValue = NULL, !.value = action.value]
      [] action.type = NAVIGATE ->
           [nextState EXCEPT !.navigationValue = action.value,
                             !.value = action.value]
      [] action.type = CLEAR ->
           [nextState EXCEPT !.value = <<>>, !.navigationValue = NULL]
      [] action.type \in {BLUR, ESCAPE} ->
           [nextState EXCEPT !.navigationValue = NULL]
      [] action.type = SELECT_WITH_CLICK ->
           [nextState EXCEPT !.value = action.value, !.navigationValue = NULL]
      [] action.type = SELECT_WITH_KEYBOARD ->
           [nextState EXCEPT !.value = data.navigationValue,
                             !.navigationValue = NULL]
      [] action.type = INTERACT ->
           [nextState EXCEPT !.navigationValue = NULL]
      [] OTHER -> UnknownAction

\* reducer with a slip: CLEAR keeps the value
reducer_clearKeepsValue(data, action) ==
    LET nextState == [data EXCEPT !.lastActionType = action.type] IN
    CASE action.type = CHANGE ->
           [nextState EXCEPT !.navigationValue = NULL, !.value = action.value]
      [] action.type = NAVIGATE ->
           [nextState EXCEPT !.navigationValue = action.value]
      [] action.type = CLEAR ->
           [nextState EXCEPT !.navigationValue = NULL]
      [] action.type \in {BLUR, ESCAPE} ->
           [nextState EXCEPT !.navigationValue = NULL]
      [] action.type = SELECT_WITH_CLICK ->
           [nextState EXCEPT !.value = action.value, !.navigationValue = NULL]
      [] action.type = SELECT_WITH_KEYBOARD ->
           [nextState EXCEPT !.value = data.navigationValue,
                             !.navigationValue = NULL]
      [] action.type = INTERACT ->
           [nextState EXCEPT !.navigationValue = NULL]
      [] OTHER -> UnknownAction

\* reducer with a slip: it does not record the action's type
reducer_keepsLastActionType(data, action) ==
    LET nextState == data IN
    CASE action.type = CHANGE ->
           [nextState EXCEPT !.navigationValue = NULL, !.value = action.value]
      [] action.type = NAVIGATE ->
           [nextState EXCEPT !.navigationValue = action.value]
      [] action.type = CLEAR ->
           [nextState EXCEPT !.value = <<>>, !.navigationValue = NULL]
      [] action.type \in {BLUR, ESCAPE} ->
           [nextState EXCEPT !.navigationValue = NULL]
      [] action.type = SELECT_WITH_CLICK ->
           [nextState EXCEPT !.value = action.value, !.navigationValue = NULL]
      [] action.type = SELECT_WITH_KEYBOARD ->
           [nextState EXCEPT !.value = data.navigationValue,
                             !.navigationValue = NULL]
      [] action.type = INTERACT ->
           [nextState EXCEPT !.navigationValue = NULL]
      [] OTHER -> UnknownAction

\* reducer with a slip: BLUR and ESCAPE keep the navigation value
reducer_blurKeepsNavigation(data, action) ==
    LET nextState == [data EXCEPT !.lastActionType = action.type] IN
    CASE action.type = CHANGE ->
           [nextState EXCEPT !.navigationValue = NULL, !.value = action.value]
      [] action.type = NAVIGATE ->
           [nextState EXCEPT !.navigationValue = action.value]
      [] action.type = CLEAR ->
           [nextState EXCEPT !.value = <<>>, !.navigationValue = NULL]
      [] action.type \in {BLUR, ESCAPE} -> nextState
      [] action.type = SELECT_WITH_CLICK ->
           [nextState EXCEPT !.value = action.value, !.navigationValue = NULL]
      [] action.type = SELECT_WITH_KEYBOARD ->
           [nextState EXCEPT !.value = data.navigationValue,
                             !.navigationValue = NULL]
      [] action.type = INTERACT ->
           [nextState EXCEPT !.navigationValue = NULL]
      [] OTHER -> UnknownAction

reducer(data, action) ==
    LET nextState == [data EXCEPT !.lastActionType = action.type] IN
    CASE action.type = CHANGE ->
           [nextState EXCEPT !.navigationValue = NULL, !.value = action.value]
      [] action.type = NAVIGATE ->
           [nextState EXCEPT !.navigationValue = action.value]
      [] action.type = CLEAR ->
           [nextState EXCEPT !.value = <<>>, !.navigationValue = NULL]
      [] action.type \in {BLUR, ESCAPE} ->
           [nextState EXCEPT !.navigationValue = NULL]
      [] action.type = SELECT_WITH_CLICK ->
           [nextState EXCEPT !.value = action.value, !.navigationValue = NULL]
      [] action.type = SELECT_WITH_KEYBOARD ->
           [nextState EXCEPT !.value = data.navigationValue,
                             !.navigationValue = NULL]
      [] action.type = INTERACT ->
           [nextState EXCEPT !.navigationValue = NULL]
      [] OTHER -> UnknownAction

\* the visible states with a slip: INTERACTING is left out
visibleStates_withoutInteracting == {SUGGESTING, NAVIGATING}

visibleStates == {SUGGESTING, NAVIGATING, INTERACTING}

isVisible(s) == s \in visibleStates

defaultData ==
    [value |-> <<>>, navigationValue |-> NULL, lastActionType |-> undefined]

\* transition with a slip: the action is dispatched before it is looked up in
\* the chart
transition_dispatchesFirst(st, d, action) ==
    LET on == stateChart.states[st] IN
    IF action.type \notin DOMAIN on
    THEN [thrown |-> TRUE, state |-> st, data |-> reducer(d, action)]
    ELSE [thrown |-> FALSE, state |-> on[action.type],
          data |-> reducer(d, action)]

\* transition with a slip: NAVIGATE from a visible state keeps the state
transition_navigateKeepsState(st, d, action) ==
    LET on == stateChart.states[st] IN
    IF action.type \notin DOMAIN on
    THEN [thrown |-> TRUE, state |-> st, data |-> d]
    ELSE [thrown |-> FALSE,
          state |-> IF action.type = NAVIGATE /\ st # IDLE
                    THEN st ELSE on[action.type],
          data |-> reducer(d, action)]

\* The machine driver's transition, called by a closure that holds `st` as
\* the state and applied to the data `d` the reducer hook holds: it throws,
\* touching nothing, when the chart lists no next state for the action;
\* otherwise it dispatches the action to the reducer and sets the next state.
transition(st, d, action) ==
    LET on == stateChart.states[st] IN
    IF action.type \notin DOMAIN on
    THEN [thrown |-> TRUE, state |-> st, data |-> d]
    ELSE [thrown |-> FALSE, state |-> on[action.type],
          data |-> reducer(d, action)]

\* ------------------------------------------------------------------------
\* The widget

VARIABLES
    state,            \* useReducerMachine's state hook
    data,             \* useReducerMachine's reducer hook
    options,          \* optionsRef.current, the option registry (the model
                      \* writes <<>> for the null of a list never mounted:
                      \* its readers treat the two alike)
    rendered,         \* the values of the ComboboxOptions the list shows, in
                      \* document order
    autocomplete,     \* autocompletePropRef.current
    controlledValue,  \* ComboboxInput's value prop, NULL when uncontrolled
    popupMounted,     \* popupRef.current holds the popup's element
    mounted,          \* the Combobox is mounted
    focus,            \* where document.activeElement is
    pending,          \* the deferred blur checks, each with the state its
                      \* closure captured, in the order they were requested
    uncommitted,      \* the argument of a setState call that has not been
                      \* rendered yet, "none" otherwise
    effects,          \* the useEffect callbacks of the last commit that have
                      \* not run yet: "all" after a render of the Combobox
                      \* (the options' pushes and the focus effect),
                      \* "options" after a render of the options alone,
                      \* "none" once they ran
    ev                \* what the last step did: the handler that ran ("idle"
                      \* when none did), the state its closure held, the
                      \* actions it passed to transition, whether transition
                      \* threw, and its calls of onSelect

vars == <<state, data, options, rendered, autocomplete, controlledValue,
          popupMounted, mounted, focus, pending, uncommitted, effects, ev>>

Event(kind, from, issued, thrown, selects) ==
    [kind |-> kind, from |-> from, issued |-> issued, thrown |-> thrown,
     selects |-> selects]

\* ComboboxInput: a controlled value that differs from data.value makes the
\* render call handleValueChange
SyncDue ==
    /\ mounted
    /\ controlledValue # NULL
    /\ controlledValue # data.value

\* no render is in progress: an event handler or an animation frame can run
Quiescent == uncommitted = "none" /\ ~SyncDue

\* the input's text with a slip: it does not look at the autocomplete prop
inputValue_ignoresAutocomplete ==
    IF state = NAVIGATING
    THEN Or(data.navigationValue, Or(controlledValue, data.value))
    ELSE Or(controlledValue, data.value)

\* ComboboxInput: the text the input shows
inputValue ==
    IF autocomplete /\ state = NAVIGATING
    THEN Or(data.navigationValue, Or(controlledValue, data.value))
    ELSE Or(controlledValue, data.value)

\* ComboboxInput: the aria-activedescendant attribute, as the sequence of the
\* one id it refers to, empty when the attribute is undefined
ariaActivedescendant ==
    IF Truthy(data.navigationValue)
    THEN <<makeHash(data.navigationValue)>> ELSE <<>>

\* ComboboxOption: the id attribute of the i-th option shown
optionId(i) == makeHash(rendered[i])

\* Combobox: the aria-expanded attribute
ariaExpanded == isVisible(state)

\* ComboboxPopup: the hidden attribute
hidden == ~isVisible(state)

\* the focus effect with a slip: it leaves ESCAPE out
refocuses_navigateOnly(d) == d.lastActionType = NAVIGATE

\* useFocusManagement
refocuses(d) == d.lastActionType \in {NAVIGATE, ESCAPE}

\* handleBlur: request an animation frame for the check; the closure keeps
\* the state of the render that created the handler
handleBlur(queue, st) == Append(queue, st)

\* The useEffect callbacks run in a task after the commit, or earlier when
\* the next update flushes them.  The registry once the options of the last
\* commit pushed their values:
EffectsOptions ==
    IF effects = "all" THEN rendered
    ELSE IF effects = "options" THEN options \o rendered
    ELSE options

\* useFocusManagement's effect is among them and focuses the input
EffectsRefocus == effects = "all" /\ refocuses(data)

\* where the focus is once they ran
EffectsFocus == IF EffectsRefocus THEN "input" ELSE focus

\* an element of the popup that loses the focus to the input fires the
\* popup's blur handler, the one of the commit whose effects run
EffectsPending(queue) ==
    IF EffectsRefocus /\ focus = "popup"
    THEN handleBlur(queue, state) ELSE queue

\* The effects of the last commit run in a task of their own.
RunEffects ==
    /\ mounted /\ Quiescent
    /\ effects # "none"
    /\ options' = EffectsOptions
    /\ focus' = EffectsFocus
    /\ Len(EffectsPending(pending)) <= MaxPending
    /\ pending' = EffectsPending(pending)
    /\ effects' = "none"
    /\ ev' = Event("idle", state, <<>>, FALSE, <<>>)
    /\ UNCHANGED <<state, data, rendered, autocomplete, controlledValue,
                   popupMounted, mounted, uncommitted>>

\* Where the focus is after a commit that shows the state s2 and the options
\* `list`, in a popup when `popup` is TRUE: elsewhere than in the popup it
\* stays; a focused element of the popup loses the focus to the document
\* body when the popup is no longer rendered; when the popup is hidden it
\* keeps the focus or loses it, as the browser decides; and when the options
\* shown change, the focused element is an option that the commit removes
\* (the focus goes to the body, and no blur handler is called during a
\* commit) or one that stays.
CommitFocus(s2, popup, list) ==
    IF EffectsFocus # "popup" THEN {EffectsFocus}
    ELSE IF ~popup THEN {"outside"}
    ELSE IF ~isVisible(s2) \/ list # rendered THEN {"popup", "outside"}
    ELSE {"popup"}

\* A render of the Combobox with state s2 and data d2, with the popup or not
\* and the options `list`, up to its commit.  The effects of the commit
\* before, when they have not run, run first; `queue` holds the deferred
\* checks before that.  The context is a new one, so the list and every
\* option render too: the list's layout effect empties the registry at the
\* commit, and the options' pushes and the focus effect are left to run.
Render(s2, d2, queue, popup, list) ==
    /\ state' = s2
    /\ data' = d2
    /\ options' = <<>>
    /\ effects' = "all"
    /\ Len(EffectsPending(queue)) <= MaxPending
    /\ pending' = EffectsPending(queue)
    /\ focus' \in CommitFocus(s2, popup, list)

\* A render that starts at a component of the application below the
\* Combobox and around the popup, up to its commit: the popup, the list and
\* the options render, the Combobox does not, so the focus effect is not
\* among the effects left to run.
RenderBelow(popup, list) ==
    /\ options' = <<>>
    /\ effects' = IF list = <<>> THEN "none" ELSE "options"
    /\ Len(EffectsPending(pending)) <= MaxPending
    /\ pending' = EffectsPending(pending)
    /\ focus' \in CommitFocus(state, popup, list)
    /\ UNCHANGED <<state, data>>

\* An event handler of the current render that passes `issued` (no action or
\* one) to transition after calling onSelect for `selects`.  `value` is the
\* controlled value the application passes from then on: its onSelect may
\* set another one.  The updates are batched: one render follows the
\* handler, also when transition threw and only the application's update is
\* left.
Handle(kind, issued, selects, value) ==
    IF issued = <<>>
    THEN /\ ev' = Event(kind, state, issued, FALSE, selects)
         /\ value = controlledValue
         /\ UNCHANGED <<state, data, options, focus, pending, effects,
                        controlledValue>>
    ELSE LET r == transition(state, data, issued[1]) IN
         /\ ev' = Event(kind, state, issued, r.thrown, selects)
         /\ controlledValue' = value
         /\ IF r.thrown /\ value = controlledValue
            THEN /\ state' = r.state
                 /\ data' = r.data
                 /\ UNCHANGED <<options, focus, pending, effects>>
            ELSE Render(r.state, r.data, pending, popupMounted, rendered)

\* handleValueChange with a slip: it does not trim the value
handleValueChange_noTrim(value) ==
    IF value = <<>> THEN Action(CLEAR, NULL) ELSE Action(CHANGE, value)

\* ComboboxInput.handleValueChange
handleValueChange(value) ==
    IF trim(value) = <<>> THEN Action(CLEAR, NULL) ELSE Action(CHANGE, value)

\* ComboboxInput.handleChange: the user types `value` into the input
HandleChange(value) ==
    /\ mounted /\ Quiescent
    /\ focus = "input"
    /\ Handle("change",
              IF controlledValue = NULL
              THEN <<handleValueChange(value)>> ELSE <<>>,
              <<>>, controlledValue)
    /\ UNCHANGED <<rendered, autocomplete, popupMounted, mounted, uncommitted>>

\* ArrowDown with a slip: the step from an item skips one
ArrowDownKey_skipsOne(st, navigationValue, opts, auto) ==
    IF Len(opts) = 0 THEN <<>>
    ELSE IF st = IDLE THEN <<Action(NAVIGATE, NULL)>>
    ELSE LET index == indexOf(opts, navigationValue)
             atBottom == index = Len(opts) - 1
         IN  IF atBottom
             THEN IF auto
                  THEN <<Action(NAVIGATE, NULL)>>
                  ELSE <<Action(NAVIGATE, At(opts, 0))>>
             ELSE <<Action(NAVIGATE, At(opts, (index + 2) % Len(opts)))>>

\* ArrowDown with a slip: at the bottom it wraps whatever autocomplete is
ArrowDownKey_alwaysWraps(st, navigationValue, opts, auto) ==
    IF Len(opts) = 0 THEN <<>>
    ELSE IF st = IDLE THEN <<Action(NAVIGATE, NULL)>>
    ELSE LET index == indexOf(opts, navigationValue)
             atBottom == index = Len(opts) - 1
         IN  IF atBottom
             THEN <<Action(NAVIGATE, At(opts, 0))>>
             ELSE <<Action(NAVIGATE, At(opts, (index + 1) % Len(opts)))>>

\* handleKeyDown, case "ArrowDown": the actions it passes to transition
ArrowDownKey(st, navigationValue, opts, auto) ==
    IF Len(opts) = 0 THEN <<>>
    ELSE IF st = IDLE THEN <<Action(NAVIGATE, NULL)>>
    ELSE LET index == indexOf(opts, navigationValue)
             atBottom == index = Len(opts) - 1
         IN  IF atBottom
             THEN IF auto
                  THEN <<Action(NAVIGATE, NULL)>>
                  ELSE <<Action(NAVIGATE, At(opts, 0))>>
             ELSE <<Action(NAVIGATE, At(opts, (index + 1) % Len(opts)))>>

\* ArrowUp with a slip: from the typed value it goes to the first option
ArrowUpKey_nullGoesFirst(st, navigationValue, opts, auto) ==
    IF Len(opts) = 0 THEN <<>>
    ELSE IF st = IDLE THEN <<Action(NAVIGATE, NULL)>>
    ELSE LET index == indexOf(opts, navigationValue) IN
         IF index = 0
         THEN IF auto
              THEN <<Action(NAVIGATE, NULL)>>
              ELSE <<Action(NAVIGATE, At(opts, Len(opts) - 1))>>
         ELSE IF index = -1
         THEN <<Action(NAVIGATE, At(opts, 0))>>
         ELSE <<Action(NAVIGATE,
                       At(opts, (index - 1 + Len(opts)) % Len(opts)))>>

\* ArrowUp with a slip: at the top it wraps whatever autocomplete is
ArrowUpKey_alwaysWraps(st, navigationValue, opts, auto) ==
    IF Len(opts) = 0 THEN <<>>
    ELSE IF st = IDLE THEN <<Action(NAVIGATE, NULL)>>
    ELSE LET index == indexOf(opts, navigationValue) IN
         IF index = 0
         THEN <<Action(NAVIGATE, At(opts, Len(opts) - 1))>>
         ELSE IF index = -1
         THEN <<Action(NAVIGATE,
                       IF Len(opts) # 0 THEN At(opts, Len(opts) - 1)
                       ELSE NULL)>>
         ELSE <<Action(NAVIGATE,
                       At(opts, (index - 1 + Len(opts)) % Len(opts)))>>

\* ArrowUp with a slip: it does not return on an empty registry
ArrowUpKey_noEmptyGuard(st, navigationValue, opts, auto) ==
    IF st = IDLE THEN <<Action(NAVIGATE, NULL)>>
    ELSE LET index == indexOf(opts, navigationValue) IN
         IF index = 0
         THEN IF auto
              THEN <<Action(NAVIGATE, NULL)>>
              ELSE <<Action(NAVIGATE, At(opts, Len(opts) - 1))>>
         ELSE IF index = -1
         THEN <<Action(NAVIGATE,
                       IF Len(opts) # 0 THEN At(opts, Len(opts) - 1)
                       ELSE NULL)>>
         ELSE <<Action(NAVIGATE,
                       At(opts, (index - 1 + Len(opts)) % Len(opts)))>>

\* handleKeyDown, case "ArrowUp"
ArrowUpKey(st, navigationValue, opts, auto) ==
    IF Len(opts) = 0 THEN <<>>
    ELSE IF st = IDLE THEN <<Action(NAVIGATE, NULL)>>
    ELSE LET index == indexOf(opts, navigationValue) IN
         IF index = 0
         THEN IF auto
              THEN <<Action(NAVIGATE, NULL)>>
              ELSE <<Action(NAVIGATE, At(opts, Len(opts) - 1))>>
         ELSE IF index = -1
         THEN <<Action(NAVIGATE,
                       IF Len(opts) # 0 THEN At(opts, Len(opts) - 1)
                       ELSE NULL)>>
         ELSE <<Action(NAVIGATE,
                       At(opts, (index - 1 + Len(opts)) % Len(opts)))>>

\* Escape with a slip: it does not look at the state
EscapeKey_alsoWhenIdle(st) == <<Action(ESCAPE, NULL)>>

\* handleKeyDown, case "Escape"
EscapeKey(st) == IF st # IDLE THEN <<Action(ESCAPE, NULL)>> ELSE <<>>

\* Enter with a slip: it does not look at the navigation value
EnterSelects_ignoresNull(st, navigationValue) == st = NAVIGATING

\* handleKeyDown, case "Enter": whether it selects
EnterSelects(st, navigationValue) ==
    st = NAVIGATING /\ navigationValue # NULL

\* a key reaches handleKeyDown from the input or from inside the popup
KeyTarget == mounted /\ Quiescent /\ focus \in {"input", "popup"}

ArrowDown ==
    /\ KeyTarget
    /\ Handle("ArrowDown",
              ArrowDownKey(state, data.navigationValue, options, autocomplete),
              <<>>, controlledValue)
    /\ UNCHANGED <<rendered, autocomplete, popupMounted, mounted, uncommitted>>

ArrowUp ==
    /\ KeyTarget
    /\ Handle("ArrowUp",
              ArrowUpKey(state, data.navigationValue, options, autocomplete),
              <<>>, controlledValue)
    /\ UNCHANGED <<rendered, autocomplete, popupMounted, mounted, uncommitted>>

Escape ==
    /\ KeyTarget
    /\ Handle("Escape", EscapeKey(state), <<>>, controlledValue)
    /\ UNCHANGED <<rendered, autocomplete, popupMounted, mounted, uncommitted>>

\* the controlled values the application may pass after onSelect(selected):
\* the one it passed before, the selected one (onSelect sets the state the
\* value prop is read from) or any other text (say, the empty one, to clear
\* the field after a selection)
OnSelectValues(selected) ==
    IF controlledValue = NULL THEN {NULL}
    ELSE {controlledValue, selected} \cup Texts

Enter ==
    /\ KeyTarget
    /\ IF EnterSelects(state, data.navigationValue)
       THEN \E value \in OnSelectValues(data.navigationValue) :
                Handle("Enter", <<Action(SELECT_WITH_KEYBOARD, NULL)>>,
                       <<data.navigationValue>>, value)
       ELSE Handle("Enter", <<>>, <<>>, controlledValue)
    /\ UNCHANGED <<rendered, autocomplete, popupMounted, mounted, uncommitted>>

\* ComboboxOption.handleClick: a click on a rendered option of a visible popup
ClickOption(value) ==
    /\ mounted /\ Quiescent
    /\ popupMounted /\ isVisible(state)
    /\ \E i \in 1..Len(rendered) : rendered[i] = value
    /\ \E passed \in OnSelectValues(value) :
           Handle("click", <<Action(SELECT_WITH_CLICK, value)>>, <<value>>,
                  passed)
    /\ UNCHANGED <<rendered, autocomplete, popupMounted, mounted, uncommitted>>

\* The user moves focus to the input, to an element of the visible popup or
\* out of the widget.  The element that loses focus fires handleBlur when it
\* is the input or lies in the popup.
MoveFocus(target) ==
    /\ mounted /\ Quiescent
    /\ target # focus \/ target = "popup"
    /\ target = "popup" => popupMounted /\ isVisible(state)
    /\ focus' = target
    /\ IF focus \in {"input", "popup"}
       THEN /\ Len(pending) < MaxPending
            /\ pending' = handleBlur(pending, state)
       ELSE pending' = pending
    /\ ev' = Event("idle", state, <<>>, FALSE, <<>>)
    /\ UNCHANGED <<state, data, options, rendered, autocomplete,
                   controlledValue, popupMounted, mounted, uncommitted,
                   effects>>

\* the deferred check with a slip: it does not look at popupRef.current
BlurCheckIssues_noPopupGuard(captured) ==
    IF focus # "input"
    THEN IF focus = "popup"
         THEN IF captured # INTERACTING
              THEN <<Action(INTERACT, NULL)>> ELSE <<>>
         ELSE <<Action(BLUR, NULL)>>
    ELSE <<>>

\* the action the deferred check of handleBlur passes to transition
BlurCheckIssues(captured) ==
    IF focus # "input" /\ popupMounted
    THEN IF focus = "popup"
         THEN IF captured # INTERACTING
              THEN <<Action(INTERACT, NULL)>> ELSE <<>>
         ELSE <<Action(BLUR, NULL)>>
    ELSE <<>>

\* The animation frame of the oldest deferred blur check: it reads
\* document.activeElement and then calls transition, the one of the render
\* that created the handler.  The host either batches the two updates of the
\* transition (one render), or renders after each: then the render of the
\* new data comes before the one of the new state.
BlurCheck ==
    /\ pending # <<>>
    /\ Quiescent
    /\ LET captured == Head(pending)
           issued == BlurCheckIssues(captured)
       IN  IF issued = <<>>
           THEN /\ ev' = Event("blurCheck", captured, issued, FALSE, <<>>)
                /\ pending' = Tail(pending)
                /\ UNCHANGED <<state, data, options, focus, uncommitted,
                               effects>>
           ELSE LET r == transition(captured, data, issued[1]) IN
                /\ ev' = Event("blurCheck", captured, issued, r.thrown, <<>>)
                /\ IF r.thrown
                   THEN /\ data' = r.data
                        /\ pending' = Tail(pending)
                        /\ UNCHANGED <<state, options, focus, uncommitted,
                                       effects>>
                   ELSE \/ /\ Render(r.state, r.data, Tail(pending),
                                     popupMounted, rendered)
                           /\ UNCHANGED uncommitted
                        \/ /\ r.state # state
                           /\ Render(state, r.data, Tail(pending),
                                     popupMounted, rendered)
                           /\ uncommitted' = r.state
    /\ UNCHANGED <<rendered, autocomplete, controlledValue, popupMounted,
                   mounted>>

\* the render of the state set by a transition whose updates were not batched
FlushSetState ==
    /\ uncommitted # "none"
    /\ Render(uncommitted, data, pending, popupMounted, rendered)
    /\ uncommitted' = "none"
    /\ UNCHANGED <<rendered, autocomplete, controlledValue, popupMounted,
                   mounted, ev>>

\* the widget is torn down: the refs are cleared, the list's cleanup empties
\* the registry
Teardown ==
    /\ mounted' = FALSE
    /\ popupMounted' = FALSE
    /\ options' = <<>>
    /\ rendered' = <<>>
    /\ focus' = "outside"
    /\ uncommitted' = "none"
    /\ effects' = "none"

\* A render of ComboboxInput whose controlled value differs from data.value:
\* it calls handleValueChange.  When the transition leaves state and data as
\* they are, the render that follows does the same again, and so on until
\* the host's limit on nested updates makes dispatch throw.  An error thrown
\* by a render unmounts the tree.
RenderSync ==
    /\ uncommitted = "none"
    /\ SyncDue
    /\ LET issued == <<handleValueChange(controlledValue)>>
           r == transition(state, data, issued[1])
           endless == ~r.thrown /\ r.state = state /\ r.data = data
       IN  /\ ev' = Event("render", state, issued, r.thrown \/ endless, <<>>)
           /\ IF r.thrown \/ endless
              THEN /\ Teardown
                   /\ state' = r.state
                   /\ data' = r.data
                   /\ UNCHANGED pending
              ELSE /\ Render(r.state, r.data, pending, popupMounted,
                             rendered)
                   /\ UNCHANGED <<rendered, popupMounted, mounted,
                                  uncommitted>>
    /\ UNCHANGED <<autocomplete, controlledValue>>

\* The application passes `value` as the controlled value, another one or
\* the same: it renders the Combobox (`whole`), or a component of its own
\* around the ComboboxInput renders alone; then no effect of the widget is
\* left to run, and those that were run before the render.
SetControlled(value, whole) ==
    /\ mounted /\ Quiescent
    /\ controlledValue # NULL
    /\ controlledValue' = value
    /\ IF whole
       THEN Render(state, data, pending, popupMounted, rendered)
       ELSE /\ options' = EffectsOptions
            /\ focus' = EffectsFocus
            /\ Len(EffectsPending(pending)) <= MaxPending
            /\ pending' = EffectsPending(pending)
            /\ effects' = "none"
            /\ UNCHANGED <<state, data>>
    /\ ev' = Event("idle", state, <<>>, FALSE, <<>>)
    /\ UNCHANGED <<rendered, autocomplete, popupMounted, mounted, uncommitted>>

\* The application renders the popup with the options `list`, other ones or
\* the same, and `auto` as the input's autocomplete prop, which the input's
\* layout effect stores: it renders the Combobox (`whole`), or a component
\* of its own below the Combobox renders alone.
RenderOptions(list, auto, whole) ==
    /\ mounted /\ Quiescent
    /\ popupMounted' = TRUE
    /\ rendered' = list
    /\ autocomplete' = auto
    /\ IF whole
       THEN Render(state, data, pending, TRUE, list)
       ELSE RenderBelow(TRUE, list)
    /\ ev' = Event("idle", state, <<>>, FALSE, <<>>)
    /\ UNCHANGED <<controlledValue, mounted, uncommitted>>

\* A component of the application that stands between the ComboboxList and
\* its ComboboxOptions renders on its own (say, with the results of a
\* search it holds in its state), showing the options `list`: neither the
\* Combobox nor the ComboboxList renders, so the registry is not emptied,
\* and each option shown has its push left to run.  Effects that have not
\* run yet run first.  A focused option that the commit removes loses the
\* focus to the document body.
RenderOptionsOnly(list) ==
    /\ mounted /\ Quiescent
    /\ popupMounted
    /\ Len(EffectsOptions) + Len(list) <= MaxRegistry
    /\ rendered' = list
    /\ options' = EffectsOptions
    /\ focus' \in IF EffectsFocus = "popup" /\ list # rendered
                  THEN {"popup", "outside"} ELSE {EffectsFocus}
    /\ Len(EffectsPending(pending)) <= MaxPending
    /\ pending' = EffectsPending(pending)
    /\ effects' = IF list = <<>> THEN "none" ELSE "options"
    /\ ev' = Event("idle", state, <<>>, FALSE, <<>>)
    /\ UNCHANGED <<state, data, autocomplete, controlledValue, popupMounted,
                   mounted, uncommitted>>

\* The application renders without the popup (say, while it has no
\* results), in a render of the Combobox (`whole`) or of a component of its
\* own around the popup: the popup's ref is cleared, and the list's cleanup
\* empties the registry when the popup was there before.
UnmountPopup(whole) ==
    /\ mounted /\ Quiescent
    /\ popupMounted' = FALSE
    /\ rendered' = <<>>
    /\ IF whole
       THEN Render(state, data, pending, FALSE, <<>>)
       ELSE RenderBelow(FALSE, <<>>)
    /\ ev' = Event("idle", state, <<>>, FALSE, <<>>)
    /\ UNCHANGED <<autocomplete, controlledValue, mounted, uncommitted>>

\* The application unmounts the Combobox.  Effects that have not run yet
\* run before the unmount is committed.
Unmount ==
    /\ mounted /\ Quiescent
    /\ Teardown
    /\ Len(EffectsPending(pending)) <= MaxPending
    /\ pending' = EffectsPending(pending)
    /\ ev' = Event("idle", state, <<>>, FALSE, <<>>)
    /\ UNCHANGED <<state, data, autocomplete, controlledValue>>

Init ==
    /\ state = stateChart.initial
    /\ data = defaultData
    /\ popupMounted \in BOOLEAN
    /\ rendered \in IF popupMounted THEN OptionLists ELSE {<<>>}
    /\ options = rendered
    /\ autocomplete \in BOOLEAN
    /\ controlledValue \in {NULL} \cup Texts
    /\ mounted = TRUE
    /\ focus = "outside"
    /\ pending = <<>>
    /\ uncommitted = "none"
    /\ effects = "none"
    /\ ev = Event("idle", stateChart.initial, <<>>, FALSE, <<>>)

Next ==
    \/ \E value \in Texts : HandleChange(value)
    \/ ArrowDown
    \/ ArrowUp
    \/ Escape
    \/ Enter
    \/ \E value \in OptionValues : ClickOption(value)
    \/ \E target \in {"input", "popup", "outside"} : MoveFocus(target)
    \/ BlurCheck
    \/ FlushSetState
    \/ RunEffects
    \/ RenderSync
    \/ \E value \in Texts, whole \in BOOLEAN : SetControlled(value, whole)
    \/ \E list \in OptionLists, auto \in BOOLEAN, whole \in BOOLEAN :
           RenderOptions(list, auto, whole)
    \/ \E list \in OptionLists : RenderOptionsOnly(list)
    \/ \E whole \in BOOLEAN : UnmountPopup(whole)
    \/ Unmount

Spec == Init /\ [][Next]_vars

\* ------------------------------------------------------------------------
\* The machine driver alone: transition called with any action and payload,
\* from any state and any data

PayloadValues == {NULL, <<97, 112>>, OptionValue(1)}

DataSpace ==
    [value : {<<>>, <<97, 112>>, OptionValue(1)},
     navigationValue : {NULL, OptionValue(1), OptionValue(2)},
     lastActionType : {undefined} \cup ActionTypes]

Call(action) ==
    LET r == transition(state, data, action) IN
    /\ state' = r.state
    /\ data' = r.data
    /\ ev' = Event("transition", state, <<action>>, r.thrown, <<>>)
    /\ UNCHANGED <<options, rendered, autocomplete, controlledValue,
                   popupMounted, mounted, focus, pending, uncommitted,
                   effects>>

MachineInit ==
    /\ state \in States
    /\ data \in DataSpace
    /\ options = <<>>
    /\ rendered = <<>>
    /\ autocomplete = FALSE
    /\ controlledValue = NULL
    /\ popupMounted = FALSE
    /\ mounted = TRUE
    /\ focus = "outside"
    /\ pending = <<>>
    /\ uncommitted = "none"
    /\ effects = "none"
    /\ ev = Event("idle", state, <<>>, FALSE, <<>>)

MachineNext ==
    \E type \in ActionTypes, value \in PayloadValues :
        Call(Action(type, value))

MachineSpec == MachineInit /\ [][MachineNext]_vars

\* ------------------------------------------------------------------------
\* Properties

\* the legal-action set of each state, as the data model states it
LegalActionSet(s) ==
    CASE s = IDLE -> {BLUR, CLEAR, CHANGE, NAVIGATE}
      [] s = SUGGESTING ->
           {CHANGE, NAVIGATE, CLEAR, ESCAPE, BLUR, SELECT_WITH_CLICK, INTERACT}
      [] s = NAVIGATING ->
           {CHANGE, CLEAR, BLUR, ESCAPE, NAVIGATE, SELECT_WITH_KEYBOARD,
            SELECT_WITH_CLICK, INTERACT}
      [] s = INTERACTING -> {CHANGE, BLUR, ESCAPE, NAVIGATE}

\* C1: transition called with an action outside the legal-action set of the
\* current state throws, and leaves state and data exactly as they were.
IllegalActionThrows ==
    [][(/\ ev'.kind = "transition"
        /\ ev'.from = state
        /\ ev'.issued[1].type \notin LegalActionSet(state))
         => (ev'.thrown /\ state' = state /\ data' = data)]_vars

\* C1: SELECT_WITH_CLICK was passed to transition in state INTERACTING, with
\* an option highlighted
IllegalActionThrowsWitness ==
    /\ ev.kind = "transition"
    /\ ev.thrown
    /\ ev.from = INTERACTING
    /\ ev.issued[1].type = SELECT_WITH_CLICK
    /\ data.navigationValue # NULL

\* C2: in every render of the widget the navigation value is non-null only
\* in state NAVIGATING.
NavigationOnlyWhileNavigating ==
    data.navigationValue # NULL => state = NAVIGATING

\* C2: an option is highlighted while the focus has moved into the popup and
\* the deferred check of that blur is still to run
NavigationOnlyWhileNavigatingWitness ==
    /\ state = NAVIGATING
    /\ data.navigationValue \in OptionValues
    /\ focus = "popup"
    /\ pending = <<NAVIGATING>>

\* C3: right after a legal CLEAR, BLUR, ESCAPE, SELECT_WITH_CLICK,
\* SELECT_WITH_KEYBOARD or INTERACT the navigation value is null, whatever
\* the state and the data were.
NavigationValueCleared ==
    (/\ ev.kind = "transition"
     /\ ~ev.thrown
     /\ ev.issued[1].type \in {CLEAR, BLUR, ESCAPE, SELECT_WITH_CLICK,
                               SELECT_WITH_KEYBOARD, INTERACT})
      => data.navigationValue = NULL

\* C3: a legal BLUR was applied in state NAVIGATING
NavigationValueClearedWitness ==
    /\ ev.kind = "transition"
    /\ ~ev.thrown
    /\ ev.issued[1].type = BLUR
    /\ ev.from = NAVIGATING
    /\ data.navigationValue = NULL

\* the state every chart entry of an action type adopts
AdoptedState(type) ==
    CASE type = CHANGE -> SUGGESTING
      [] type = NAVIGATE -> NAVIGATING
      [] type = INTERACT -> INTERACTING
      [] OTHER -> IDLE

\* C4: every render shows the data of the last transition together with the
\* state that transition adopted, never with the state before it.
TransitionIsOneUpdate ==
    data.lastActionType \in ActionTypes
      => state = AdoptedState(data.lastActionType)

\* C5: onSelect is called once, with the selected value, by every click on an
\* option and by every Enter that selects, each time together with the
\* committed selection, and by no other event.
SelectionCallbackWithCommit ==
    /\ ev.kind = "click" => Len(ev.selects) = 1
    /\ ev.kind \notin {"click", "Enter"} => ev.selects = <<>>
    /\ ev.selects # <<>> =>
         /\ Len(ev.selects) = 1
         /\ ~ev.thrown
         /\ ev.issued \in { <<Action(SELECT_WITH_CLICK, ev.selects[1])>>,
                            <<Action(SELECT_WITH_KEYBOARD, NULL)>> }
         /\ data.lastActionType = ev.issued[1].type
         /\ data.value = ev.selects[1]
         /\ state = IDLE

\* a step that runs the oldest deferred blur check
RunsBlurCheck == pending # <<>> /\ BlurCheck

\* the deferred checks after a step in which an element of the popup lost
\* the focus to the input: one more, with the state of the render whose
\* handler the blur called, behind those that had not run
BlurQueued ==
    \E queue \in {pending} \cup
                  (IF pending # <<>> THEN {Tail(pending)} ELSE {}) :
        pending' = Append(queue, state)

\* the state a transition leaves once all its updates are rendered
Adopted == IF uncommitted' = "none" THEN state' ELSE uncommitted'

\* C6: a deferred check of the mounted widget with its popup rendered issues
\* nothing when the input has the focus; INTERACT exactly when the focus is
\* in the popup and the widget is not INTERACTING (then: INTERACTING, no
\* navigation value, popup visible); BLUR when the focus is elsewhere (then:
\* IDLE, no navigation value, the value kept).
DeferredCheckDecides ==
    [][(mounted /\ popupMounted /\ RunsBlurCheck) =>
         /\ focus = "input" =>
              /\ ev'.issued = <<>>
              /\ state' = state /\ data' = data
         /\ focus = "popup" =>
              /\ (ev'.issued = <<Action(INTERACT, NULL)>>)
                   <=> (state # INTERACTING)
              /\ ev'.issued # <<>> =>
                   /\ ~ev'.thrown
                   /\ Adopted = INTERACTING
                   /\ data'.navigationValue = NULL
              /\ ev'.issued = <<>> => state' = state /\ data' = data
              /\ isVisible(Adopted)
         /\ focus = "outside" =>
              /\ ev'.issued = <<Action(BLUR, NULL)>>
              /\ ~ev'.thrown
              /\ Adopted = IDLE
              /\ data'.navigationValue = NULL
              /\ data'.value = data.value]_vars

\* C7: a blur event (the user moves the focus away from the input or from an
\* element of the popup, or the focus effect takes it from the popup) adds
\* exactly one deferred check; a step runs at most one check, the oldest, and
\* removes it; and a check that runs after the widget was unmounted issues no
\* transition and changes neither state nor data.
DeferredCheckOnceAndGuarded ==
    [][/\ (focus \in {"input", "popup"} /\ MoveFocus(focus'))
         => pending' = Append(pending, state)
       /\ (focus = "popup" /\ focus' = "input")
         => BlurQueued
       /\ Len(pending') < Len(pending)
         => /\ RunsBlurCheck
            /\ pending' = Tail(pending)
            /\ ev'.kind = "blurCheck"
            /\ ev'.from = Head(pending)
       /\ RunsBlurCheck
         => /\ Len(pending') <= Len(pending)
            /\ ev'.from = Head(pending)
       /\ (~mounted /\ RunsBlurCheck)
         => /\ ev'.issued = <<>>
            /\ state' = state /\ data' = data
            /\ uncommitted' = "none"]_vars

\* C7: a check requested while the popup was open has run after the unmount,
\* with the focus outside the widget
DeferredCheckOnceAndGuardedWitness ==
    /\ ~mounted
    /\ ev.kind = "blurCheck"
    /\ ev.from = SUGGESTING
    /\ state = SUGGESTING
    /\ focus = "outside"
    /\ pending = <<>>

\* the values of a list are pairwise different
Distinct(list) ==
    \A i, j \in 1..Len(list) : i # j => list[i] # list[j]

\* C8: with an uncontrolled input and a registry of n >= 1 distinct options,
\* ArrowDown in IDLE opens the list with nothing highlighted, the next
\* ArrowDown highlights registry[0], each further one the next item, and
\* Enter on a highlighted registry[k-1] calls onSelect with it once and
\* leaves IDLE, value = registry[k-1] and no navigation value.
ArrowDownWalkThenEnter ==
    [][/\ (ArrowDown /\ controlledValue = NULL /\ Len(options) >= 1
             /\ Distinct(options)) =>
            /\ state = IDLE =>
                 state' = NAVIGATING /\ data'.navigationValue = NULL
            /\ (state = NAVIGATING /\ data.navigationValue = NULL) =>
                 state' = NAVIGATING /\ data'.navigationValue = options[1]
            /\ \A k \in 1..(Len(options) - 1) :
                 (state = NAVIGATING /\ data.navigationValue = options[k]) =>
                   /\ state' = NAVIGATING
                   /\ data'.navigationValue = options[k + 1]
       /\ (Enter /\ controlledValue = NULL /\ Distinct(options)
             /\ state = NAVIGATING
             /\ \E k \in 1..Len(options) : data.navigationValue = options[k])
            => /\ ev'.selects = <<data.navigationValue>>
               /\ ~ev'.thrown
               /\ state' = IDLE
               /\ data'.value = data.navigationValue
               /\ data'.navigationValue = NULL]_vars

\* C8: Enter has selected the second of the two options of an uncontrolled
\* input
ArrowDownWalkThenEnterWitness ==
    /\ controlledValue = NULL
    /\ rendered = <<OptionValue(1), OptionValue(2)>>
    /\ ev.kind = "Enter"
    /\ ev.selects = <<OptionValue(2)>>
    /\ state = IDLE
    /\ data.value = OptionValue(2)
    /\ data.navigationValue = NULL

\* C9 as stated: ArrowDown while the navigation value is the last item of a
\* non-empty registry issues NAVIGATE to registry[0] without autocomplete and
\* NAVIGATE to null with it, and the state stays NAVIGATING.
ArrowDownFromLastItem ==
    [][(ArrowDown /\ Len(options) >= 1
          /\ data.navigationValue = options[Len(options)]) =>
         /\ ev'.issued =
              <<Action(NAVIGATE, IF autocomplete THEN NULL ELSE options[1])>>
         /\ state = NAVIGATING
         /\ state' = NAVIGATING]_vars

\* C9 as amended: the same, when the navigation value is the last item of
\* the registry and occurs nowhere before it.
ArrowDownFromLastIndex ==
    [][(ArrowDown /\ Len(options) >= 1
          /\ indexOf(options, data.navigationValue) = Len(options) - 1) =>
         /\ ev'.issued =
              <<Action(NAVIGATE, IF autocomplete THEN NULL ELSE options[1])>>
         /\ state = NAVIGATING
         /\ state' = NAVIGATING]_vars

\* C9: with autocomplete, ArrowDown in an open list of two options has gone
\* back to the typed value, which it does from the last item only
ArrowDownFromLastIndexWitness ==
    /\ autocomplete
    /\ Len(rendered) = 2
    /\ effects = "all"
    /\ ev.kind = "ArrowDown"
    /\ ev.from = NAVIGATING
    /\ ev.issued = <<Action(NAVIGATE, NULL)>>
    /\ state = NAVIGATING

\* C10 as stated: ArrowUp while the navigation value is null and the
\* registry is non-empty highlights the last registry item, in every state.
ArrowUpFromNull ==
    [][(ArrowUp /\ Len(options) >= 1 /\ data.navigationValue = NULL) =>
         data'.navigationValue = options[Len(options)]]_vars

\* C10 as amended: it does so in every state but IDLE, with and without
\* autocomplete; in IDLE it opens the list and highlights nothing.
ArrowUpFromNullWhenOpen ==
    [][(ArrowUp /\ Len(options) >= 1 /\ data.navigationValue = NULL) =>
         /\ state # IDLE =>
              /\ ev'.issued = <<Action(NAVIGATE, options[Len(options)])>>
              /\ data'.navigationValue = options[Len(options)]
         /\ state = IDLE =>
              /\ ev'.issued = <<Action(NAVIGATE, NULL)>>
              /\ data'.navigationValue = NULL
         /\ state' = NAVIGATING]_vars

\* C10: ArrowUp pressed inside the popup, with autocomplete, has highlighted
\* the last of two options
ArrowUpFromNullWhenOpenWitness ==
    /\ autocomplete
    /\ Len(rendered) = 2
    /\ effects = "all"
    /\ ev.kind = "ArrowUp"
    /\ ev.from = INTERACTING
    /\ state = NAVIGATING
    /\ data.navigationValue = rendered[2]

\* C11: Enter pressed in NAVIGATING with a null navigation value, or in IDLE,
\* SUGGESTING or INTERACTING, calls no onSelect and issues no transition:
\* state, value, navigation value and lastActionType stay as they were.
EnterWithoutHighlight ==
    [][(Enter /\ (state # NAVIGATING \/ data.navigationValue = NULL)) =>
         /\ ev'.selects = <<>>
         /\ ev'.issued = <<>>
         /\ state' = state
         /\ data' = data]_vars

\* C11: Enter was pressed in an open list with nothing highlighted, and
\* nothing came of it
EnterWithoutHighlightWitness ==
    /\ ev.kind = "Enter"
    /\ ev.from = NAVIGATING
    /\ ev.issued = <<>>
    /\ ev.selects = <<>>
    /\ state = NAVIGATING
    /\ data.navigationValue = NULL
    /\ data.lastActionType = NAVIGATE

\* C12: the Escape key issues ESCAPE exactly when the state is not IDLE;
\* then the transition is legal and leaves IDLE (the popup hidden), a null
\* navigation value and the value it found.  In IDLE it issues nothing and
\* changes nothing.
EscapeKeyCloses ==
    [][Escape =>
         /\ (ev'.issued = <<Action(ESCAPE, NULL)>>) <=> (state # IDLE)
         /\ state # IDLE =>
              /\ ~ev'.thrown
              /\ state' = IDLE
              /\ state' \notin {SUGGESTING, NAVIGATING, INTERACTING}
              /\ data'.navigationValue = NULL
              /\ data'.value = data.value
              /\ data'.lastActionType = ESCAPE
         /\ state = IDLE =>
              /\ ev'.issued = <<>>
              /\ state' = state
              /\ data' = data]_vars

\* C12: Escape has closed a list in which an option was highlighted, and the
\* typed value is still there
EscapeKeyClosesWitness ==
    /\ ev.kind = "Escape"
    /\ ev.from = NAVIGATING
    /\ ev.issued = <<Action(ESCAPE, NULL)>>
    /\ state = IDLE
    /\ data.value = <<97, 112>>
    /\ data.navigationValue = NULL
    /\ data.lastActionType = ESCAPE

\* a text of white space only, the empty text included
AllWhitespace(s) == \A i \in 1..Len(s) : IsWhitespace(s[i])

\* C13: a render that finds a controlled (non-null) value different from
\* data.value passes exactly one action to transition: CLEAR when the
\* controlled value is empty or white space only, CHANGE with the controlled
\* value otherwise, and after a CHANGE data.value is the controlled value.
\* The controlled value itself changes only when the application passes
\* another one, in a render of its own or in the batch of a handler that
\* called its onSelect; no handler and no transition writes it.
ControlledSync ==
    [][/\ (uncommitted = "none" /\ mounted /\ controlledValue # NULL
            /\ controlledValue # data.value) =>
            /\ ev'.kind = "render"
            /\ ev'.issued =
                 <<IF AllWhitespace(controlledValue)
                   THEN Action(CLEAR, NULL)
                   ELSE Action(CHANGE, controlledValue)>>
            /\ ev'.issued[1].type = CHANGE =>
                 /\ ~ev'.thrown
                 /\ data'.value = controlledValue
                 /\ data'.lastActionType = CHANGE
       /\ RenderSync => controlledValue # NULL /\ controlledValue # data.value
       /\ controlledValue' # controlledValue =>
            \/ ev'.kind = "idle"
            \/ ev'.selects # <<>>]_vars

\* C13: the render of a controlled value of one space has issued CLEAR
ControlledSyncWitness ==
    /\ ev.kind = "render"
    /\ ev.issued = <<Action(CLEAR, NULL)>>
    /\ ~ev.thrown
    /\ controlledValue = <<32>>
    /\ data.value = <<>>
    /\ data.lastActionType = CLEAR

\* C14 as stated: the input shows the navigation value when autocomplete is
\* on, the state is NAVIGATING and the navigation value is not null;
\* otherwise the controlled value when it is not null; otherwise data.value.
RenderedTextWhenPresent ==
    mounted =>
      inputValue =
        IF autocomplete /\ state = NAVIGATING /\ data.navigationValue # NULL
        THEN data.navigationValue
        ELSE IF controlledValue # NULL THEN controlledValue ELSE data.value

\* C14 as amended: the same with "present" read as neither null nor the
\* empty string; and without autocomplete, or in a state other than
\* NAVIGATING, the text is the controlled value or data.value.
RenderedText ==
    mounted =>
      /\ inputValue =
           IF /\ autocomplete /\ state = NAVIGATING
              /\ data.navigationValue # NULL /\ data.navigationValue # <<>>
           THEN data.navigationValue
           ELSE IF controlledValue # NULL /\ controlledValue # <<>>
                THEN controlledValue
                ELSE data.value
      /\ ~(autocomplete /\ state = NAVIGATING) =>
           inputValue \in {controlledValue, data.value}

\* C14: with autocomplete, the input of a controlled widget shows the
\* highlighted option and not the controlled value
RenderedTextWitness ==
    /\ mounted
    /\ autocomplete
    /\ state = NAVIGATING
    /\ data.navigationValue = OptionValue(1)
    /\ controlledValue = <<97, 112>>
    /\ data.value = <<97, 112>>
    /\ inputValue = OptionValue(1)

\* C15: whenever a keyboard handler can read the registry, the registry is
\* the sequence of the values of the options the list shows, in document
\* order, and it is empty once the list is unmounted.
RegistryIsRendered ==
    /\ KeyTarget => options = rendered
    /\ ~popupMounted => options = <<>>

\* C16: in every render the container's expanded flag says whether the
\* state is SUGGESTING, NAVIGATING or INTERACTING, and the popup's hidden
\* flag is its negation: the popup is hidden exactly in IDLE.
VisibilityFlags ==
    mounted =>
      /\ ariaExpanded <=> state \in {SUGGESTING, NAVIGATING, INTERACTING}
      /\ hidden <=> ~ariaExpanded
      /\ hidden <=> state = IDLE

\* C16: the focus is inside the popup, which is shown
VisibilityFlagsWitness ==
    /\ mounted /\ popupMounted
    /\ state = INTERACTING
    /\ focus = "popup"
    /\ ariaExpanded
    /\ ~hidden

\* C17: whenever the navigation value is not null, the input's
\* aria-activedescendant is the hash of the navigation value, which is the id
\* of every option shown with that value, wherever it stands in the list;
\* whenever the navigation value is null the attribute is absent.
ActiveDescendantIsOptionId ==
    mounted =>
      /\ data.navigationValue # NULL =>
           /\ ariaActivedescendant = <<makeHash(data.navigationValue)>>
           /\ \A i \in 1..Len(rendered) :
                rendered[i] = data.navigationValue =>
                  ariaActivedescendant = <<optionId(i)>>
      /\ data.navigationValue = NULL => ariaActivedescendant = <<>>

\* a step in which no effect runs: it neither renders nor runs the effects
\* that are left
RunsNoEffects ==
    /\ effects' = effects
    /\ options' = options
    /\ UNCHANGED <<state, data, rendered, autocomplete, controlledValue,
                   popupMounted, uncommitted>>

\* the effects that are left are those of a render of the Combobox in which
\* lastActionType is NAVIGATE or ESCAPE
RefocusDue ==
    effects = "all" /\ data.lastActionType \in {NAVIGATE, ESCAPE}

\* C18 as stated: when the effects of a render with lastActionType NAVIGATE
\* or ESCAPE have run the focus is on the input (a step that leaves it
\* elsewhere runs none); an arrow key or Escape pressed in INTERACTING with
\* the focus inside the popup is followed by such a render; its effects
\* blur the popup's element, which requests one deferred check; and a
\* deferred check that finds the focus on the input issues no transition.
KeyInPopupRefocuses ==
    [][/\ (mounted' /\ RefocusDue /\ focus' # "input") => RunsNoEffects
       /\ (state = INTERACTING /\ focus = "popup"
             /\ (ArrowDown \/ ArrowUp \/ Escape)) =>
            /\ effects' = "all"
            /\ data'.lastActionType \in {NAVIGATE, ESCAPE}
       /\ (mounted' /\ RefocusDue /\ focus = "popup" /\ ~RunsNoEffects) =>
            /\ focus' = "input"
            /\ BlurQueued
       /\ (focus = "input" /\ RunsBlurCheck) =>
            /\ ev'.issued = <<>>
            /\ state' = state
            /\ data' = data]_vars

\* C18 as amended: the same, for Escape and for an arrow key pressed while
\* the registry is not empty; an arrow key pressed while it is empty is
\* followed by no render and leaves the focus inside the popup.
FocusReturnsToInput ==
    [][/\ (mounted' /\ RefocusDue /\ focus' # "input") => RunsNoEffects
       /\ (state = INTERACTING /\ focus = "popup"
             /\ (Escape \/ (options # <<>> /\ (ArrowDown \/ ArrowUp)))) =>
            /\ effects' = "all"
            /\ data'.lastActionType \in {NAVIGATE, ESCAPE}
       /\ (mounted' /\ RefocusDue /\ focus = "popup" /\ ~RunsNoEffects) =>
            /\ focus' = "input"
            /\ BlurQueued
       /\ (focus = "popup" /\ options = <<>> /\ (ArrowDown \/ ArrowUp)) =>
            /\ focus' = "popup"
            /\ pending' = pending
            /\ RunsNoEffects
       /\ (focus = "input" /\ RunsBlurCheck) =>
            /\ ev'.issued = <<>>
            /\ state' = state
            /\ data' = data]_vars

\* C18: Escape has closed the popup, the effects of that render have run and
\* moved the focus to the input; the check requested by the popup's blur is
\* waiting
FocusReturnsToInputWitness ==
    /\ effects = "none"
    /\ state = IDLE
    /\ data.lastActionType = ESCAPE
    /\ focus = "input"
    /\ pending = <<IDLE>>

\* C19: ArrowDown or ArrowUp pressed while the registry is empty (the list
\* shows no option, or no list is mounted) issues no transition and raises
\* no error, in every state: state, value, navigation value, lastActionType
\* and the focus stay as they were.
ArrowOnEmptyRegistry ==
    [][(options = <<>> /\ (ArrowDown \/ ArrowUp)) =>
         /\ ev'.issued = <<>>
         /\ ~ev'.thrown
         /\ state' = state
         /\ data' = data
         /\ focus' = focus]_vars

\* C19: ArrowUp was pressed while an option was highlighted and the
\* registry was empty, and nothing came of it
ArrowOnEmptyRegistryWitness ==
    /\ ev.kind = "ArrowUp"
    /\ ev.issued = <<>>
    /\ options = <<>>
    /\ popupMounted
    /\ state = NAVIGATING
    /\ data.navigationValue = OptionValue(1)

\* the rules of the data reducer, as the component design states them
ReducerRules(d, action) ==
    [value |->
       CASE action.type \in {CHANGE, SELECT_WITH_CLICK} -> action.value
         [] action.type = CLEAR -> <<>>
         [] action.type = SELECT_WITH_KEYBOARD -> d.navigationValue
         [] OTHER -> d.value,
     navigationValue |->
       IF action.type = NAVIGATE THEN action.value ELSE NULL,
     lastActionType |-> action.type]

\* C20: for every state, every action legal in it and every data, the data
\* after the transition is the reducer's output for the data before and the
\* action, with lastActionType the action's type, and it is the same from
\* whichever state the action is legal in.
DataIsReducerOutput ==
    [][(ev'.kind = "transition" /\ ~ev'.thrown) =>
         LET action == ev'.issued[1] IN
         /\ action.type \in LegalActionSet(state)
         /\ data' = reducer(data, action)
         /\ data' = ReducerRules(data, action)
         /\ data'.lastActionType = action.type
         /\ \A s \in States :
              action.type \in LegalActionSet(s) =>
                transition(s, data, action).data = data']_vars

\* C20: SELECT_WITH_KEYBOARD applied in NAVIGATING has copied the navigation
\* value into the value
DataIsReducerOutputWitness ==
    /\ ev.kind = "transition"
    /\ ~ev.thrown
    /\ ev.from = NAVIGATING
    /\ ev.issued[1].type = SELECT_WITH_KEYBOARD
    /\ state = IDLE
    /\ data = [value |-> OptionValue(1), navigationValue |-> NULL,
               lastActionType |-> SELECT_WITH_KEYBOARD]

\* C21: NAVIGATE, BLUR, ESCAPE and INTERACT leave data.value as it was, from
\* every state and with every payload; a transition that changes data.value
\* is a legal CHANGE, CLEAR, SELECT_WITH_CLICK or SELECT_WITH_KEYBOARD.
ValueFrame ==
    [][ev'.kind = "transition" =>
         LET action == ev'.issued[1] IN
         /\ action.type \in {NAVIGATE, BLUR, ESCAPE, INTERACT} =>
              data'.value = data.value
         /\ data'.value # data.value =>
              /\ ~ev'.thrown
              /\ action.type \in {CHANGE, CLEAR, SELECT_WITH_CLICK,
                                   SELECT_WITH_KEYBOARD}]_vars

\* C21: NAVIGATE with the payload "A" was applied in SUGGESTING and the
\* typed value is still there
ValueFrameWitness ==
    /\ ev.kind = "transition"
    /\ ~ev.thrown
    /\ ev.from = SUGGESTING
    /\ ev.issued = <<Action(NAVIGATE, OptionValue(1))>>
    /\ data.navigationValue = OptionValue(1)
    /\ data.value = <<97, 112>>

\* C22: from every data, and every state in which CLEAR can be applied,
\* CLEAR then CHANGE with any payload then CLEAR are three legal
\* transitions that leave the data (value, navigation value and
\* lastActionType) a single CLEAR leaves, and both leave the state IDLE.
ClearChangeClear ==
    CLEAR \in LegalActionSet(state) =>
      \A x \in PayloadValues :
        LET once == transition(state, data, Action(CLEAR, NULL))
            second == transition(once.state, once.data, Action(CHANGE, x))
            third == transition(second.state, second.data,
                                Action(CLEAR, NULL))
        IN  /\ ~once.thrown /\ ~second.thrown /\ ~third.thrown
            /\ third.data = once.data
            /\ third.data = [value |-> <<>>, navigationValue |-> NULL,
                             lastActionType |-> CLEAR]
            /\ third.state = IDLE
            /\ once.state = IDLE

\* C22: CLEAR was applied in SUGGESTING, the state the CHANGE in the middle
\* of the three leaves
ClearChangeClearWitness ==
    /\ ev.kind = "transition"
    /\ ~ev.thrown
    /\ ev.from = SUGGESTING
    /\ ev.issued = <<Action(CLEAR, NULL)>>
    /\ state = IDLE
    /\ data = [value |-> <<>>, navigationValue |-> NULL,
               lastActionType |-> CLEAR]

\* C23: every action a handler, a render or a deferred check passes to
\* transition is in the legal-action set of the state the widget is in at
\* that moment and of the state transition reads, so that transition does
\* not raise the illegal-action error.
IssuedActionsAreLegal ==
    [][(ev' # ev /\ ev'.issued # <<>>) =>
         /\ ev'.issued[1].type \in LegalActionSet(state)
         /\ ev'.issued[1].type \in LegalActionSet(ev'.from)]_vars

\* C24: a deferred check decides from the state the widget is in when the
\* check runs: what it issues, whether that is legal and the state it
\* adopts are those of the current state; and a check that runs in IDLE
\* after a selection or ESCAPE closed the popup leaves the widget in IDLE.
DeferredCheckReadsCurrentState ==
    [][(mounted /\ popupMounted /\ RunsBlurCheck) =>
         /\ ev'.issued = BlurCheckIssues(state)
         /\ ev'.issued # <<>> =>
              LET r == transition(state, data, ev'.issued[1]) IN
              /\ ev'.thrown = r.thrown
              /\ Adopted = r.state
         /\ (/\ state = IDLE
             /\ data.lastActionType \in
                  {SELECT_WITH_CLICK, SELECT_WITH_KEYBOARD, ESCAPE})
              => Adopted = IDLE]_vars

\* the renders of ComboboxInput from state st and data d with the controlled
\* value cv reach, after at most n of them that pass an action to
\* transition, a render that passes none
RECURSIVE SyncSettlesWithin(_, _, _, _)
SyncSettlesWithin(st, d, cv, n) ==
    \/ cv = d.value
    \/ /\ n > 0
       /\ LET r == transition(st, d, handleValueChange(cv)) IN
          r.thrown \/ SyncSettlesWithin(r.state, r.data, cv, n - 1)

\* C25: for every controlled value, the empty and the white-space-only ones
\* included, the renders that sync it come to a render that emits no action
\* (MaxSyncRenders is more than the states and data a sync render can
\* leave, so a sync that has not settled by then never does).
ControlledSyncTerminates ==
    (mounted /\ uncommitted = "none" /\ controlledValue # NULL) =>
      SyncSettlesWithin(state, data, controlledValue, MaxSyncRenders)

\* C26: data.value is never null, and SELECT_WITH_KEYBOARD is issued by
\* Enter alone, in NAVIGATING and with a navigation value that is not null
\* (the one handed to onSelect).
ValueNeverNull ==
    /\ data.value # NULL
    /\ (ev.issued # <<>> /\ ev.issued[1].type = SELECT_WITH_KEYBOARD) =>
         /\ ev.kind = "Enter"
         /\ ev.from = NAVIGATING
         /\ Len(ev.selects) = 1
         /\ ev.selects[1] # NULL

\* C26: Enter has copied the highlighted option into the value
ValueNeverNullWitness ==
    /\ ev.kind = "Enter"
    /\ ev.issued = <<Action(SELECT_WITH_KEYBOARD, NULL)>>
    /\ ev.selects = <<OptionValue(1)>>
    /\ data.value = OptionValue(1)
    /\ data.lastActionType = SELECT_WITH_KEYBOARD

\* the navigation value after the key whose handler issued `issued` in
\* NAVIGATING
AfterKey(issued) ==
    transition(NAVIGATING, data, issued[1]).data.navigationValue

\* C27: with autocomplete, in NAVIGATING, with a registry of one or more
\* distinct values that both keys read, and a navigation value that is null
\* or in the registry: ArrowDown then ArrowUp, and ArrowUp then ArrowDown,
\* bring the navigation value back, and the state stays NAVIGATING.
ArrowKeysAreInverses ==
    (/\ mounted /\ autocomplete /\ state = NAVIGATING
     /\ options # <<>> /\ Distinct(options)
     /\ \/ data.navigationValue = NULL
        \/ \E i \in 1..Len(options) : options[i] = data.navigationValue) =>
      LET down == ArrowDownKey(state, data.navigationValue, options,
                               autocomplete)
          up == ArrowUpKey(state, data.navigationValue, options, autocomplete)
      IN  /\ Len(down) = 1 /\ Len(up) = 1
          /\ transition(state, data, down[1]).state = NAVIGATING
          /\ transition(state, data, up[1]).state = NAVIGATING
          /\ ArrowUpKey(NAVIGATING, AfterKey(down), options, autocomplete)
               = <<Action(NAVIGATE, data.navigationValue)>>
          /\ ArrowDownKey(NAVIGATING, AfterKey(up), options, autocomplete)
               = <<Action(NAVIGATE, data.navigationValue)>>

\* C27: in a list of two distinct options, ArrowUp pressed on the first
\* option has gone back to the typed value, from which ArrowDown goes to the
\* first option
ArrowKeysAreInversesWitness ==
    /\ mounted /\ autocomplete
    /\ Len(rendered) = 2 /\ Distinct(rendered)
    /\ effects = "all"
    /\ ev.kind = "ArrowUp"
    /\ ev.from = NAVIGATING
    /\ ev.issued = <<Action(NAVIGATE, NULL)>>
    /\ state = NAVIGATING
    /\ data.navigationValue = NULL

====
